---- MODULE Spec2Model ----
(***************************************************************************)
(* Model of sidekick's provisioning workflow (cmd/initialize), its         *)
(* host/context registry (utils/config.go), the config sub-commands and    *)
(* the root command's registry loading (cmd/root.go).                      *)
(*                                                                         *)
(* One CLI invocation is one process: it loads the registry file, runs a   *)
(* command and exits.  The registry file, the remote hosts and the local   *)
(* tool installation persist between invocations.                          *)
(***************************************************************************)
EXTENDS Naturals, Sequences, FiniteSets, TLC

(***************************************************************************)
(* Bounds                                                                  *)
(***************************************************************************)
\* number of CLI invocations in one behaviour
MaxRuns == 2
\* longest Servers / Contexts collection drawn for the registry operations
MaxLen == 2

(***************************************************************************)
(* Values                                                                  *)
(***************************************************************************)
Names == {"box1", "box2"}
HostAddrs == {"203.0.113.5", "203.0.113.6"}
BadAddr == "not-an-ip"
Addresses == HostAddrs \cup {BadAddr}
Emails == {"a@b.com", "c@d.com"}

\* the six stages declared for the progress display
cmdStages ==
  << "Setting up your local env", "Logging in to VPS", "Adding user Sidekick",
     "Setting up VPS", "Setting up Docker", "Setting up Traefik" >>
NumStages == Len(cmdStages)

\* utils.IsValidIPAddress
IsValidIPAddress(a) == a \in HostAddrs

(***************************************************************************)
(* Registry data model (utils.SidekickConfig / SidekickServer /            *)
(* SidekickContext)                                                        *)
(***************************************************************************)
ServerFields ==
  {"Name", "Address", "CertEmail", "Distro", "PlatformId", "PublicKey", "SecretKey"}

\* the zero value SidekickServer{}
ZeroServer == [f \in ServerFields |-> ""]

\* SidekickServer{Name: name, Address: server, CertEmail: certEmail}
NewServer(n, a, e) ==
  [ZeroServer EXCEPT !.Name = n, !.Address = a, !.CertEmail = e]

NewContext(n, s) == [Name |-> n, Server |-> s]

\* the registry used when no registry file can be read
EmptyConfig ==
  [Version |-> "1", CurrentContext |-> "", Contexts |-> <<>>, Servers |-> <<>>]

\* index of the first element of seq named n, 0 when there is none
\* (the loops of FindContext, FindServer and AddOrReplace*, which stop at the
\* first match; Go's idx == -1 is 0 here because sequences start at 1)
IndexOfName(seq, n) ==
  IF \E i \in 1..Len(seq) : seq[i].Name = n
    THEN CHOOSE i \in 1..Len(seq) :
           /\ seq[i].Name = n
           /\ \A j \in 1..(i - 1) : seq[j].Name # n
    ELSE 0

\* FindServer: [err, val]
FindServer(c, n) ==
  LET i == IndexOfName(c.Servers, n)
  IN  IF i = 0 THEN [err |-> TRUE, val |-> ZeroServer]
               ELSE [err |-> FALSE, val |-> c.Servers[i]]

\* FindContext: [err, val]
FindContext(c, n) ==
  LET i == IndexOfName(c.Contexts, n)
  IN  IF i = 0 THEN [err |-> TRUE, val |-> NewContext("", "")]
               ELSE [err |-> FALSE, val |-> c.Contexts[i]]

\* FindServerByContext: [err, val]
FindServerByContext(c, ctxName) ==
  LET r == FindContext(c, ctxName)
  IN  IF r.err THEN [err |-> TRUE, val |-> ZeroServer]
               ELSE FindServer(c, r.val.Server)

\* an upsert that never finds its match
UpsertAppend(seq, e) == Append(seq, e)

\* the upsert both AddOrReplace methods perform on their collection
Upsert(seq, e) ==
  LET idx == IndexOfName(seq, e.Name)
  IN  IF idx = 0 THEN Append(seq, e) ELSE [seq EXCEPT ![idx] = e]

\* a registration that adds the context without looking for its name
AddContext(c, ctx) == [c EXCEPT !.Contexts = Append(c.Contexts, ctx)]

AddOrReplaceContext(c, ctx) == [c EXCEPT !.Contexts = Upsert(c.Contexts, ctx)]

\* a registration that adds the server without looking for its name
AddServer(c, s) == [c EXCEPT !.Servers = Append(c.Servers, s)]

AddOrReplaceServer(c, s) == [c EXCEPT !.Servers = Upsert(c.Servers, s)]

(***************************************************************************)
(* Registry documents (yaml.Marshal / yaml.Unmarshal, Save, Print)         *)
(***************************************************************************)
\* yaml key of each SidekickServer field
YamlKey ==
  [Name |-> "name", Address |-> "address", CertEmail |-> "certEmail",
   Distro |-> "distro", PlatformId |-> "platformId",
   PublicKey |-> "publicKey", SecretKey |-> "secretKey"]

YamlServerKeys == {YamlKey[f] : f \in ServerFields}

FieldOfKey(k) == CHOOSE f \in ServerFields : YamlKey[f] = k

MarshalServer(s) == [k \in YamlServerKeys |-> s[FieldOfKey(k)]]

\* keys the document does not have leave the field at its zero value
UnmarshalServer(d) ==
  [f \in ServerFields |-> IF YamlKey[f] \in DOMAIN d THEN d[YamlKey[f]] ELSE ""]

MarshalContext(x) == [name |-> x.Name, server |-> x.Server]

UnmarshalContext(d) == [Name |-> d.name, Server |-> d.server]

MarshalConfig(c) ==
  [version |-> c.Version, currentContext |-> c.CurrentContext,
   contexts |-> [i \in 1..Len(c.Contexts) |-> MarshalContext(c.Contexts[i])],
   servers |-> [i \in 1..Len(c.Servers) |-> MarshalServer(c.Servers[i])]]

UnmarshalConfig(d) ==
  [Version |-> IF "version" \in DOMAIN d THEN d.version ELSE "",
   CurrentContext |-> IF "currentContext" \in DOMAIN d THEN d.currentContext ELSE "",
   Contexts |-> IF "contexts" \in DOMAIN d
                  THEN [i \in 1..Len(d.contexts) |-> UnmarshalContext(d.contexts[i])]
                  ELSE <<>>,
   Servers |-> IF "servers" \in DOMAIN d
                 THEN [i \in 1..Len(d.servers) |-> UnmarshalServer(d.servers[i])]
                 ELSE <<>>]

\* what the registry path holds: nothing readable, or a document
NoFile == [kind |-> "none"]
FileOf(d) == [kind |-> "file", doc |-> d]

\* a readable file whose content is not a YAML document
TextFile == [kind |-> "text"]

\* legacy single-host documents: the server fields at top level
LegacyDocs ==
  { [name |-> "old", address |-> "203.0.113.5", certEmail |-> "a@b.com",
     distro |-> "ubuntu", platformId |-> "linux/amd64",
     publicKey |-> "age1legacy", secretKey |-> "AGE-SECRET-KEY-LEGACY"],
    [address |-> "203.0.113.6", certEmail |-> "a@b.com"] }

(***************************************************************************)
(* Registry loading of the root command (cmd/root.go)                      *)
(***************************************************************************)
\* commands are named by their path below the root command
Commands == {"init", "config use", "config migrate"}

requireConfigFile(c) == c \notin {"init", "help", "config migrate"}

\* the version check skipped for init as well
skipVersionCheckForInit(c) == c \in {"help", "config migrate", "init"}

shouldSkipConfigVersionCheck(c) == c \in {"help", "config migrate"}

\* line 73: `var config utils.SidekickConfig`, which a failed yaml.Unmarshal
\* (line 92; line 94 formats a message and goes on) leaves as it is
ZeroConfig ==
  [Version |-> "", CurrentContext |-> "", Contexts |-> <<>>, Servers |-> <<>>]

\* initConfig: [fatal, config]
initConfig(f, c) ==
  LET cfg == CASE f.kind = "none" -> EmptyConfig
               [] f.kind = "text" -> ZeroConfig
               [] OTHER -> UnmarshalConfig(f.doc)
  IN  IF f.kind = "none" /\ requireConfigFile(c)
        THEN [fatal |-> TRUE, config |-> EmptyConfig]
        ELSE IF cfg.Version # "1" /\ ~shouldSkipConfigVersionCheck(c)
               THEN [fatal |-> TRUE, config |-> cfg]
               ELSE [fatal |-> FALSE, config |-> cfg]

(***************************************************************************)
(* Environment: remote hosts, remote commands, local tools                 *)
(***************************************************************************)
\* a host nothing was provisioned on
FreshHost == [user |-> FALSE, docker |-> FALSE, traefik |-> FALSE]

\* utils.Login(server, user): the outcomes the network and the host allow.
\* Nothing answers at a malformed address and nobody can log in as a user
\* the host does not have; any other attempt may succeed or fail.
LoginOutcomes(h, a, user) ==
  IF a \notin HostAddrs THEN {FALSE}
  ELSE IF user = "sidekick" /\ ~h[a].user THEN {FALSE}
  ELSE {TRUE, FALSE}

\* utils.RunCommand(client, cmd): either the command cannot be started (err)
\* or its trimmed standard output arrives on the output channel
RunCommandResults(out) ==
  {[err |-> TRUE, out |-> ""], [err |-> FALSE, out |-> out]}

\* standard output of `id -u sidekick`
IdOutput(hst) == IF hst.user THEN "1001" ELSE ""

\* standard output of the docker / docker compose probe
DockerProbeOutput(hst) == IF hst.docker THEN "1" ELSE "0"

\* standard output of the traefik directory probe
TraefikProbeOutput(hst) == IF hst.traefik THEN "1" ELSE "0"

\* `uname -m` of each host
ArchOf(a) == IF a = "203.0.113.5" THEN "x86_64" ELSE "aarch64"

LocalTools == {"sops", "age"}

(***************************************************************************)
(* Text of age-keygen's output.  A text is kept as its lines               *)
(* (strings.Split(outStr, "\n")), a line as its parts between colons       *)
(* (strings.Split(line, ":")), a part as its runs of characters, the       *)
(* blank being a run of its own.                                           *)
(***************************************************************************)
RECURSIVE Concat(_)
Concat(toks) == IF toks = <<>> THEN "" ELSE Head(toks) \o Concat(Tail(toks))

\* strings.ReplaceAll(part, " ", "")
ReplaceAllSpaces(part) == Concat(SelectSeq(part, LAMBDA t : t # " "))

RECURSIVE JoinParts(_)
JoinParts(parts) ==
  IF parts = <<>> THEN ""
  ELSE IF Len(parts) = 1 THEN Concat(parts[1])
  ELSE Concat(parts[1]) \o ":" \o JoinParts(Tail(parts))

\* the n-th key pair age-keygen hands out: every call yields a new one
KeygenText(n) ==
  << << <<"#", " ", "created">>, <<" ", "2024-01-01T00", "00", "00Z">> >>,
     << <<"#", " ", "public", " ", "key">>, <<" ", "age1k" \o ToString(n)>> >>,
     << <<"AGE-SECRET-KEY-" \o ToString(n)>> >>,
     << <<>> >> >>

\* an output too short to hold a key pair
ShortText == << << <<>> >> >>

KeygenOutputs(n) == {KeygenText(n), ShortText}

\* lines 108-115 of initialize.go: the keys parsed out of the output
ParseKeys(s, lines) ==
  IF Len(lines) >= 3
    THEN LET withSecret == [s EXCEPT !.SecretKey = JoinParts(lines[3])]
             parts == lines[2]
         IN  IF Len(parts) > 1
               THEN [withSecret EXCEPT !.PublicKey = ReplaceAllSpaces(parts[2])]
               ELSE withSecret
    ELSE s

\* key generation on every run
AlwaysKeygen(s) == TRUE

\* line 101: a key pair is generated only when one of the keys is missing
NeedsKeygen(s) == s.PublicKey = "" \/ s.SecretKey = ""

\* lines 90-95: the docker platform of an architecture
PlatformIdFor(s, arch) ==
  IF arch = "x86_64" THEN [s EXCEPT !.PlatformId = "linux/amd64"]
  ELSE IF arch = "aarch64" THEN [s EXCEPT !.PlatformId = "linux/arm64"]
  ELSE s

\* strings.ToLower on the answers the confirmation prompt is given
ToLower(a) == IF a = "Y" THEN "y" ELSE a

(***************************************************************************)
(* State                                                                   *)
(***************************************************************************)
VARIABLES
  file,            \* what the registry path holds on disk
  host,            \* per address, what is set up on the remote host
  installed,       \* local helper tools found by exec.LookPath
  runs,            \* CLI invocations started so far
  pc,              \* position of the running process, "shell" when none runs
  cmd,             \* the command of the running process
  config,          \* the process's in-memory registry
  loaded,          \* the registry as initConfig produced it
  host0,           \* the remote hosts as they were when the process started
  name, server, certEmail, skipPromptsFlag,
  confirm,         \* the answer to the overwrite confirmation, "" when not asked
  sidekickServer,  \* the Host Identity the run works on
  loggedInUser,    \* identity stage2Login authenticated as
  events,          \* messages sent to the tea.Program, in order
  attempts,        \* calls of utils.Login, in order
  ran,             \* command batches the run started on the remote host
  ranOk,           \* command batches that ran to the end
  probeErr,        \* the probe utils.RunCommand could not start in the stage last run
  keygenCalls,     \* executions of age-keygen
  saved,           \* documents handed to Save, in order
  stdout,          \* documents printed to standard output
  exitCode,        \* exit status of the process once it has exited
  lastCall         \* the registry operation applied last: [op, before, entry]

persistent == <<file, host, installed>>
inputs == <<name, server, certEmail, skipPromptsFlag, confirm>>
observed == <<events, attempts, ran, ranOk, probeErr, keygenCalls, saved, stdout>>

NoCall == [op |-> "", before |-> EmptyConfig, entry |-> ZeroServer]
vars == <<file, host, installed, runs, pc, cmd, config, loaded, host0,
          name, server, certEmail, skipPromptsFlag, confirm, sidekickServer,
          loggedInUser, events, attempts, ran, ranOk, probeErr, keygenCalls, saved, stdout,
          exitCode, lastCall>>

\* the state of a process that has not started
Blank ==
  /\ pc = "shell" /\ cmd = "" /\ config = EmptyConfig /\ loaded = EmptyConfig
  /\ host0 = [a \in HostAddrs |-> FreshHost]
  /\ name = "" /\ server = "" /\ certEmail = "" /\ skipPromptsFlag = FALSE
  /\ confirm = ""
  /\ sidekickServer = ZeroServer /\ loggedInUser = ""
  /\ events = <<>> /\ attempts = <<>> /\ ran = {} /\ ranOk = {}
  /\ probeErr = "" /\ keygenCalls = 0 /\ saved = <<>> /\ stdout = <<>>
  /\ exitCode = 0

Init ==
  /\ file \in {NoFile} \cup {FileOf(d) : d \in LegacyDocs}
  /\ host = [a \in HostAddrs |-> FreshHost]
  /\ installed = {}
  /\ runs = 0
  /\ lastCall = NoCall
  /\ Blank

(***************************************************************************)
(* Messages to the progress display                                        *)
(***************************************************************************)
\* render.NextStageMsg{} sent after the k-th stage
NextStageMsg(k) == [kind |-> "NextStageMsg", about |-> cmdStages[k]]
\* render.ErrorMsg{ErrorStr: what + ": " + cause}
ErrorMsg(what) == [kind |-> "ErrorMsg", about |-> what]
\* render.AllDoneMsg{...}
AllDoneMsg == [kind |-> "AllDoneMsg", about |-> "VPS Setup Done"]

\* Fail without the return: the worker goes on to the registry update
FailAndGoOn(what) ==
  /\ events' = Append(events, ErrorMsg(what))
  /\ pc' = "save"

\* the worker returns after an error message
Fail(what) ==
  /\ events' = Append(events, ErrorMsg(what))
  /\ pc' = "failed"

\* Advance without the p.Send
AdvanceUnsent(k, next) ==
  /\ events' = events
  /\ pc' = next

\* the worker goes on after a stage
Advance(k, next) ==
  /\ events' = Append(events, NextStageMsg(k))
  /\ pc' = next

(***************************************************************************)
(* init: InitCmd.Run up to the start of the worker (lines 163-230)         *)
(***************************************************************************)
\* the condition of line 204 without its look at the skip flag
MustConfirmDespiteFlag(s, n, a, yes) ==
  s.Name = n /\ s.Address # a /\ s.PublicKey # ""

\* line 204: the overwrite confirmation is asked for
MustConfirm(s, n, a, yes) ==
  s.Name = n /\ s.Address # a /\ s.PublicKey # "" /\ ~yes

RunInit ==
  /\ pc = "shell" /\ runs < MaxRuns
  /\ \E nameFlag \in Names \cup {""}, serverFlag \in Addresses \cup {""},
        emailFlag \in Emails \cup {""}, yes \in BOOLEAN,
        nameAns \in Names, serverAns \in Addresses, emailAns \in Emails \cup {""},
        answer \in {"y", "Y", "n"} :
       \* a prompt is shown only for a flag that is empty
       /\ nameFlag # "" => nameAns = "box1"
       /\ serverFlag # "" => serverAns = BadAddr
       /\ emailFlag # "" => emailAns = ""
       /\ LET ld == initConfig(file, "init")
              n == IF nameFlag = "" THEN nameAns ELSE nameFlag
              a == IF serverFlag = "" THEN serverAns ELSE serverFlag
              e == IF emailFlag = "" THEN emailAns ELSE emailFlag
              badInput == \/ serverFlag = "" /\ ~IsValidIPAddress(serverAns)
                          \/ emailFlag = "" /\ emailAns = ""
              found == FindServer(ld.config, n)
              s == IF found.err THEN NewServer(n, a, e) ELSE found.val
              asked == MustConfirm(s, n, a, yes)
              declined == asked /\ ToLower(answer) # "y"
          IN  /\ ~asked => answer = "n"
              /\ runs' = runs + 1
              /\ cmd' = "init"
              /\ IF ld.fatal \/ badInput
                   THEN /\ pc' = "exited" /\ exitCode' = 1
                        /\ UNCHANGED <<config, loaded, host0, inputs, sidekickServer>>
                   ELSE /\ config' = ld.config /\ loaded' = ld.config
                        /\ host0' = host
                        /\ name' = n /\ server' = a /\ certEmail' = e
                        /\ skipPromptsFlag' = yes
                        /\ confirm' = IF asked THEN answer ELSE ""
                        /\ IF declined
                             THEN /\ pc' = "exited" /\ exitCode' = 0
                                  /\ sidekickServer' = s
                             ELSE /\ pc' = "prelogin" /\ exitCode' = 0
                                  /\ sidekickServer' =
                                       [s EXCEPT !.Address = a, !.CertEmail = e]
  /\ UNCHANGED <<persistent, loggedInUser, observed, lastCall>>

\* line 232: a login as root whose result is dropped, before the worker starts
PreLogin ==
  /\ pc = "prelogin"
  /\ \E ok \in LoginOutcomes(host, server, "root") :
       attempts' = Append(attempts, [user |-> "root", at |-> "Run", ok |-> ok])
  /\ pc' = "stage1"
  /\ UNCHANGED <<persistent, runs, cmd, config, loaded, host0, inputs, sidekickServer,
                 loggedInUser, events, ran, ranOk, probeErr, keygenCalls, saved,
                 stdout, exitCode, lastCall>>

(***************************************************************************)
(* The worker goroutine (lines 234-293), one action per stage              *)
(***************************************************************************)
\* stage1LocalReqs: tools in need of installation whose `brew install`
\* results are r; [err, installed]
stage1LocalReqs(have, r) ==
  IF "sops" \notin have /\ ~r["sops"] THEN [err |-> TRUE, installed |-> have]
  ELSE IF "age" \notin have /\ ~r["age"]
         THEN [err |-> TRUE, installed |-> have \cup {"sops"}]
         ELSE [err |-> FALSE, installed |-> LocalTools]

Stage1 ==
  /\ pc = "stage1"
  /\ \E r \in [LocalTools -> BOOLEAN] :
       /\ \A t \in installed : r[t]
       /\ LET res == stage1LocalReqs(installed, r)
          IN  /\ installed' = res.installed
              /\ IF res.err THEN Fail("Local requirements check failed")
                            ELSE Advance(1, "stage2")
  /\ UNCHANGED <<file, host, runs, cmd, config, loaded, host0, inputs,
                 sidekickServer, loggedInUser, attempts, ran, ranOk, probeErr,
                 keygenCalls, saved, stdout, exitCode, lastCall>>

\* the identities in the opposite order
usersReversed == <<"sidekick", "root">>

\* the identities stage2Login tries, in order
users == <<"root", "sidekick">>

\* stage2Login with login results oc[i] for users[i]: the identities tried
\* and the one that authenticated; [err, user, tried]
stage2Login(oc) ==
  IF \E i \in 1..Len(users) : oc[i]
    THEN LET k == CHOOSE i \in 1..Len(users) :
                    oc[i] /\ \A j \in 1..(i - 1) : ~oc[j]
         IN  [err |-> FALSE, user |-> users[k], tried |-> SubSeq(users, 1, k)]
    ELSE [err |-> TRUE, user |-> "", tried |-> users]

Stage2 ==
  /\ pc = "stage2"
  /\ \E oc \in [1..Len(users) -> BOOLEAN] :
       /\ \A i \in 1..Len(users) : oc[i] \in LoginOutcomes(host, server, users[i])
       /\ LET res == stage2Login(oc)
          IN  /\ attempts' = attempts \o
                   [i \in 1..Len(res.tried) |->
                      [user |-> res.tried[i], at |-> "stage2Login", ok |-> oc[i]]]
              /\ loggedInUser' = res.user
              /\ IF res.err THEN Fail("Login failed") ELSE Advance(2, "stage3")
  /\ UNCHANGED <<persistent, runs, cmd, config, loaded, host0, inputs, sidekickServer,
                 ran, ranOk, probeErr, keygenCalls, saved, stdout, exitCode, lastCall>>

\* the decision without the check of the identity logged in
NeedsUserSetupAnyUser(probe, user) == probe.err \/ probe.out = ""

\* stage3UserSetup lines 62-73: the user-creation stage is run
NeedsUserSetup(probe, user) ==
  LET hasSidekickUser == ~probe.err /\ probe.out # ""
  IN  ~hasSidekickUser /\ user = "root"

\* stage3UserSetup (line 250)
Stage3 ==
  /\ pc = "stage3"
  /\ \E probe \in RunCommandResults(IdOutput(host[server])), stageOk \in BOOLEAN :
       /\ probeErr' = IF probe.err THEN "usersetup" ELSE ""
       /\ IF NeedsUserSetup(probe, loggedInUser)
            THEN /\ ran' = ran \cup {"usersetup"}
                 /\ IF stageOk
                      THEN /\ ranOk' = ranOk \cup {"usersetup"}
                           /\ host' = [host EXCEPT ![server].user = TRUE]
                           /\ pc' = "relogin"
                           /\ UNCHANGED events
                      ELSE /\ Fail("User setup failed")
                           /\ UNCHANGED <<ranOk, host>>
            ELSE /\ pc' = "relogin"
                 /\ UNCHANGED <<ran, ranOk, host, events>>
  /\ UNCHANGED <<file, installed, runs, cmd, config, loaded, host0, inputs,
                 sidekickServer, loggedInUser, attempts, keygenCalls, saved,
                 stdout, exitCode, lastCall>>

\* lines 255-261: the session is re-established as the service identity
ReLogin ==
  /\ pc = "relogin"
  /\ \E ok \in LoginOutcomes(host, server, "sidekick") :
       /\ attempts' = Append(attempts,
                              [user |-> "sidekick", at |-> "relogin", ok |-> ok])
       /\ IF ok THEN Advance(3, "stage4") ELSE Fail("Failed to login as sidekick")
  /\ UNCHANGED <<persistent, runs, cmd, config, loaded, host0, inputs, sidekickServer,
                 loggedInUser, ran, ranOk, probeErr, keygenCalls, saved, stdout,
                 exitCode, lastCall>>

\* `<-outChan` in stage4VPSSetup, which drops RunCommand's error: when the
\* command could not be started there is no channel anything is written to
\* and the receive never returns
Receive(r) ==
  IF r.err THEN [hang |-> TRUE, out |-> ""] ELSE [hang |-> FALSE, out |-> r.out]

\* stage4VPSSetup (line 263)
Stage4 ==
  /\ pc = "stage4"
  /\ \E r1 \in RunCommandResults("ubuntu"), r2 \in RunCommandResults(ArchOf(server)),
        setupOk \in BOOLEAN, keygenOk \in BOOLEAN, text \in KeygenOutputs(runs) :
       LET rd1 == Receive(r1)
           rd2 == Receive(r2)
           s1 == [sidekickServer EXCEPT !.Distro = rd1.out]
           s2 == PlatformIdFor(s1, rd2.out)
       IN  IF rd1.hang
             THEN /\ pc' = "hung"
                  /\ probeErr' = "hostdetect"
                  /\ UNCHANGED <<sidekickServer, ran, ranOk, keygenCalls, events>>
           ELSE IF rd2.hang
             THEN /\ pc' = "hung"
                  /\ probeErr' = "hostdetect"
                  /\ sidekickServer' = s1
                  /\ UNCHANGED <<ran, ranOk, keygenCalls, events>>
           ELSE /\ probeErr' = ""
                /\ ran' = ran \cup {"setup"}
                /\ IF ~setupOk
                     THEN /\ Fail("VPS setup failed")
                          /\ sidekickServer' = s2
                          /\ UNCHANGED <<ranOk, keygenCalls>>
                   ELSE /\ ranOk' = ranOk \cup {"setup"}
                        /\ IF NeedsKeygen(s2)
                             THEN /\ keygenCalls' = keygenCalls + 1
                                  /\ IF keygenOk
                                       THEN /\ sidekickServer' = ParseKeys(s2, text)
                                            /\ Advance(4, "stage5")
                                       ELSE /\ sidekickServer' = s2
                                            /\ Fail("VPS setup failed")
                             ELSE /\ sidekickServer' = s2
                                  /\ Advance(4, "stage5")
                                  /\ UNCHANGED keygenCalls
  /\ UNCHANGED <<persistent, runs, cmd, config, loaded, host0, inputs, loggedInUser,
                 attempts, saved, stdout, exitCode, lastCall>>

\* stage5Docker lines 121-128 / stage6Traefik lines 139-146: the probe
\* reports the effect as present
ProbeReady(probe) == ~probe.err /\ probe.out = "1"

\* stage5Docker (line 270)
Stage5 ==
  /\ pc = "stage5"
  /\ \E probe \in RunCommandResults(DockerProbeOutput(host[server])),
        stageOk \in BOOLEAN :
       /\ probeErr' = IF probe.err THEN "docker" ELSE ""
       /\ IF ~ProbeReady(probe)
            THEN /\ ran' = ran \cup {"docker"}
                 /\ IF stageOk
                      THEN /\ ranOk' = ranOk \cup {"docker"}
                           /\ host' = [host EXCEPT ![server].docker = TRUE]
                           /\ Advance(5, "stage6")
                      ELSE /\ Fail("Docker setup failed")
                           /\ UNCHANGED <<ranOk, host>>
            ELSE /\ Advance(5, "stage6")
                 /\ UNCHANGED <<ran, ranOk, host>>
  /\ UNCHANGED <<file, installed, runs, cmd, config, loaded, host0, inputs,
                 sidekickServer, loggedInUser, attempts, keygenCalls, saved,
                 stdout, exitCode, lastCall>>

\* stage6Traefik (line 277); no NextStageMsg follows the last stage
Stage6 ==
  /\ pc = "stage6"
  /\ \E probe \in RunCommandResults(TraefikProbeOutput(host[server])),
        stageOk \in BOOLEAN :
       /\ probeErr' = IF probe.err THEN "traefik" ELSE ""
       /\ IF ~ProbeReady(probe)
            THEN /\ ran' = ran \cup {"traefik"}
                 /\ IF stageOk
                      THEN /\ ranOk' = ranOk \cup {"traefik"}
                           /\ host' = [host EXCEPT ![server].traefik = TRUE]
                           /\ pc' = "save"
                           /\ UNCHANGED events
                      ELSE /\ Fail("Traefik setup failed")
                           /\ UNCHANGED <<ranOk, host>>
            ELSE /\ pc' = "save"
                 /\ UNCHANGED <<ran, ranOk, host, events>>
  /\ UNCHANGED <<file, installed, runs, cmd, config, loaded, host0, inputs,
                 sidekickServer, loggedInUser, attempts, keygenCalls, saved,
                 stdout, exitCode, lastCall>>

\* the registry update without line 285
RegisteredNoCurrent(c, s) ==
  AddOrReplaceContext(AddOrReplaceServer(c, s), NewContext(s.Name, s.Name))

\* lines 282-285: the registry after the upserts
Registered(c, s) ==
  LET newContext == NewContext(s.Name, s.Name)
      c1 == AddOrReplaceServer(c, s)
      c2 == AddOrReplaceContext(c1, newContext)
  IN  [c2 EXCEPT !.CurrentContext = newContext.Name]

\* a Save that writes the document twice
SaveWritesTwice(c) == <<MarshalConfig(c), MarshalConfig(c)>>

\* config.go lines 35-41: the documents one Save hands to os.WriteFile
SaveWrites(c) == <<MarshalConfig(c)>>

\* the end of the worker with the completion message sent whatever Save returns
FinishDoneAnyway ==
  /\ pc = "save"
  /\ config' = Registered(config, sidekickServer)
  /\ saved' = saved \o SaveWrites(config')
  /\ \E saveOk \in BOOLEAN :
       file' = IF saveOk THEN FileOf(MarshalConfig(config')) ELSE file
  /\ events' = Append(events, AllDoneMsg)
  /\ pc' = "done"
  /\ UNCHANGED <<host, installed, runs, cmd, loaded, host0, inputs,
                 sidekickServer, loggedInUser, attempts, ran, ranOk, probeErr,
                 keygenCalls, stdout, exitCode, lastCall>>

\* lines 282-292: registry update, Save, completion message
Finish ==
  /\ pc = "save"
  /\ config' = Registered(config, sidekickServer)
  /\ saved' = saved \o SaveWrites(config')
  /\ \E saveOk \in BOOLEAN :
       IF saveOk
         THEN /\ file' = FileOf(MarshalConfig(config'))
              /\ events' = Append(events, AllDoneMsg)
              /\ pc' = "done"
         ELSE /\ Fail("Failed to write config")
              /\ UNCHANGED file
  /\ UNCHANGED <<host, installed, runs, cmd, loaded, host0, inputs,
                 sidekickServer, loggedInUser, attempts, ran, ranOk, probeErr,
                 keygenCalls, stdout, exitCode, lastCall>>

(***************************************************************************)
(* The process ends: the display loop returns, or the process was ended    *)
(* by os.Exit / log.Fatalf / pterm.Fatal, or a hung worker was interrupted *)
(***************************************************************************)
ProcessExit ==
  /\ pc \in {"done", "failed", "hung", "exited"}
  /\ pc' = "shell" /\ cmd' = "" /\ config' = EmptyConfig /\ loaded' = EmptyConfig
  /\ host0' = [a \in HostAddrs |-> FreshHost]
  /\ name' = "" /\ server' = "" /\ certEmail' = "" /\ skipPromptsFlag' = FALSE
  /\ confirm' = ""
  /\ sidekickServer' = ZeroServer /\ loggedInUser' = ""
  /\ events' = <<>> /\ attempts' = <<>> /\ ran' = {} /\ ranOk' = {}
  /\ probeErr' = "" /\ keygenCalls' = 0 /\ saved' = <<>> /\ stdout' = <<>>
  /\ exitCode' = 0
  /\ UNCHANGED <<file, host, installed, runs, lastCall>>

(***************************************************************************)
(* config use / config migrate                                             *)
(***************************************************************************)
\* useContextCmd: the result of Save is dropped
ConfigUse ==
  /\ pc = "shell" /\ runs < MaxRuns
  /\ runs' = runs + 1
  /\ cmd' = "config use"
  /\ pc' = "exited"
  /\ \E contextName \in Names, saveOk \in BOOLEAN :
       LET ld == initConfig(file, "config use")
           c == [ld.config EXCEPT !.CurrentContext = contextName]
       IN  IF ld.fatal
             THEN /\ exitCode' = 1
                  /\ UNCHANGED <<file, config, loaded, saved>>
             ELSE /\ loaded' = ld.config
                  /\ config' = c
                  /\ saved' = saved \o SaveWrites(c)
                  /\ file' = IF saveOk THEN FileOf(MarshalConfig(c)) ELSE file
                  /\ exitCode' = 0
  /\ UNCHANGED <<host, installed, host0, inputs, sidekickServer, loggedInUser,
                 events, attempts, ran, ranOk, probeErr, keygenCalls, stdout,
                 lastCall>>

\* the migration without line 76
MigratedKeepName(serverConfig) ==
  [Version |-> "1", Servers |-> <<serverConfig>>,
   Contexts |-> <<NewContext("default", "default")>>,
   CurrentContext |-> "default"]

\* migrateCmd lines 76-86: the registry built around a legacy server
Migrated(serverConfig) ==
  LET srv == [serverConfig EXCEPT !.Name = "default"]
      defaultContext == NewContext("default", "default")
  IN  [Version |-> "1", Servers |-> <<srv>>, Contexts |-> <<defaultContext>>,
       CurrentContext |-> defaultContext.Name]

\* migrateCmd, after initConfig let it through
ConfigMigrate ==
  /\ pc = "shell" /\ runs < MaxRuns
  /\ runs' = runs + 1
  /\ cmd' = "config migrate"
  /\ pc' = "exited"
  /\ \E printOk \in BOOLEAN :
       LET ld == initConfig(file, "config migrate")
       IN  IF ld.fatal \/ file.kind # "file"
             THEN /\ exitCode' = 1
                  /\ UNCHANGED <<config, loaded, stdout>>
             ELSE /\ loaded' = ld.config
                  /\ config' = ld.config
                  /\ IF printOk
                       THEN /\ stdout' = Append(stdout,
                                   MarshalConfig(Migrated(UnmarshalServer(file.doc))))
                            /\ exitCode' = 0
                       ELSE /\ exitCode' = 1
                            /\ UNCHANGED stdout
  /\ UNCHANGED <<persistent, host0, inputs, sidekickServer, loggedInUser, events,
                 attempts, ran, ranOk, probeErr, keygenCalls, saved, lastCall>>

Next ==
  \/ RunInit
  \/ PreLogin
  \/ Stage1
  \/ Stage2
  \/ Stage3
  \/ ReLogin
  \/ Stage4
  \/ Stage5
  \/ Stage6
  \/ Finish
  \/ ProcessExit
  \/ ConfigUse
  \/ ConfigMigrate

Spec == Init /\ [][Next]_vars

\* a step of the worker goroutine (lines 232-293)
WorkerStep ==
  \/ PreLogin
  \/ Stage1
  \/ Stage2
  \/ Stage3
  \/ ReLogin
  \/ Stage4
  \/ Stage5
  \/ Stage6
  \/ Finish

\* the worker is scheduled, every process and command it starts returns and
\* the display loop takes every message sent to it: a worker that can take a
\* step eventually takes one
SpecLive == Spec /\ WF_vars(WorkerStep)

(***************************************************************************)
(* The registry operations on their own: any registry of bounded size,     *)
(* any entry                                                               *)
(***************************************************************************)
ServerEntries == {NewServer(n, a, "a@b.com") : n \in Names, a \in HostAddrs}

ContextEntries == {NewContext(n, s) : n \in Names, s \in Names}

SeqsUpTo(S, k) == UNION {[1..m -> S] : m \in 0..k}

Registries ==
  [Version : {"1"}, CurrentContext : Names \cup {""},
   Contexts : SeqsUpTo(ContextEntries, MaxLen),
   Servers : SeqsUpTo(ServerEntries, MaxLen)]

InitRegistry ==
  /\ file = NoFile
  /\ host = [a \in HostAddrs |-> FreshHost]
  /\ installed = {}
  /\ runs = 0
  /\ lastCall = NoCall
  /\ pc = "shell" /\ cmd = "" /\ loaded = EmptyConfig
  /\ host0 = [a \in HostAddrs |-> FreshHost]
  /\ name = "" /\ server = "" /\ certEmail = "" /\ skipPromptsFlag = FALSE
  /\ confirm = ""
  /\ sidekickServer = ZeroServer /\ loggedInUser = ""
  /\ events = <<>> /\ attempts = <<>> /\ ran = {} /\ ranOk = {}
  /\ probeErr = "" /\ keygenCalls = 0 /\ saved = <<>> /\ stdout = <<>>
  /\ exitCode = 0
  /\ config \in Registries

CallAddOrReplaceServer ==
  /\ \E s \in ServerEntries :
       /\ lastCall' = [op |-> "AddOrReplaceServer", before |-> config, entry |-> s]
       /\ config' = AddOrReplaceServer(config, s)
  /\ UNCHANGED <<persistent, runs, pc, cmd, loaded, host0, inputs, sidekickServer,
                 loggedInUser, observed, exitCode>>

CallAddOrReplaceContext ==
  /\ \E ctx \in ContextEntries :
       /\ lastCall' = [op |-> "AddOrReplaceContext", before |-> config, entry |-> ctx]
       /\ config' = AddOrReplaceContext(config, ctx)
  /\ UNCHANGED <<persistent, runs, pc, cmd, loaded, host0, inputs, sidekickServer,
                 loggedInUser, observed, exitCode>>

\* the registry update that ends a successful init run (lines 282-285)
CallRegistered ==
  /\ \E s \in ServerEntries :
       /\ lastCall' = [op |-> "Registered", before |-> config, entry |-> s]
       /\ config' = Registered(config, s)
  /\ UNCHANGED <<persistent, runs, pc, cmd, loaded, host0, inputs, sidekickServer,
                 loggedInUser, observed, exitCode>>

\* the registry update of `config use` (useContextCmd, line 57)
CallUse ==
  /\ \E contextName \in Names :
       /\ lastCall' = [op |-> "use", before |-> config, entry |-> contextName]
       /\ config' = [config EXCEPT !.CurrentContext = contextName]
  /\ UNCHANGED <<persistent, runs, pc, cmd, loaded, host0, inputs, sidekickServer,
                 loggedInUser, observed, exitCode>>

NextRegistry ==
  \/ CallAddOrReplaceServer
  \/ CallAddOrReplaceContext
  \/ CallRegistered
  \/ CallUse

SpecRegistry == InitRegistry /\ [][NextRegistry]_vars

(***************************************************************************)
(* Registry loading on its own: any command, any content of the registry   *)
(* path                                                                    *)
(***************************************************************************)
\* the commands of the root command (root.go lines 65-69, the config
\* subcommands, and cobra's help)
RootCommands ==
  Commands \cup {"help", "config current", "deploy", "launch", "preview"}

\* version fields a registry document may carry
Versions == {"1", "2"}

\* what the registry path may hold when a command starts
LoadFiles ==
  {NoFile, TextFile}
    \cup {FileOf(d) : d \in LegacyDocs}
    \cup {FileOf(MarshalConfig([c EXCEPT !.Version = v])) :
            c \in Registries, v \in Versions}

InitLoad ==
  /\ file \in LoadFiles
  /\ host = [a \in HostAddrs |-> FreshHost]
  /\ installed = {}
  /\ runs = 0
  /\ lastCall = NoCall
  /\ Blank

\* rootCmd.PersistentPreRun: initConfig(cmd), after which the command's Run
\* starts with the registry put in its context, unless the process was ended
PersistentPreRun ==
  /\ pc = "shell" /\ runs < MaxRuns
  /\ runs' = runs + 1
  /\ \E c \in RootCommands :
       LET ld == initConfig(file, c)
       IN  /\ cmd' = c
           /\ IF ld.fatal
                THEN /\ pc' = "exited" /\ exitCode' = 1
                     /\ UNCHANGED <<config, loaded>>
                ELSE /\ pc' = "run" /\ exitCode' = 0
                     /\ config' = ld.config /\ loaded' = ld.config
  /\ UNCHANGED <<persistent, host0, inputs, sidekickServer, loggedInUser,
                 observed, lastCall>>

NextLoad == PersistentPreRun

SpecLoad == InitLoad /\ [][NextLoad]_vars

(***************************************************************************)
(* Properties                                                              *)
(***************************************************************************)
Last(seq) == seq[Len(seq)]

\* positions of the terminal messages (ErrorMsg, AllDoneMsg) in a stream
Terminals(ev) == {i \in 1..Len(ev) : ev[i].kind \in {"ErrorMsg", "AllDoneMsg"}}

\* the NextStageMsg of the first k stages, in stage order
AdvancesUpTo(k) == [i \in 1..k |-> NextStageMsg(i)]

\* C1 as stated: a successful init run sends one NextStageMsg per declared
\* stage (NumStages = 6 of them, in stage order) and then one AllDoneMsg.
C1_AdvancePerStage ==
  pc = "done" => events = AdvancesUpTo(NumStages) \o <<AllDoneMsg>>

\* C1 amended: a successful init run sends exactly NumStages - 1 = 5
\* NextStageMsg, one after each stage but the last and in stage order, then
\* exactly one AllDoneMsg and nothing after it.
C1_AdvanceBetweenStages ==
  pc = "done" => events = AdvancesUpTo(NumStages - 1) \o <<AllDoneMsg>>

C1_Witness == pc = "done" /\ Len(events) = NumStages

\* the messages a failing step sends
FailureTexts ==
  {"Local requirements check failed", "Login failed", "User setup failed",
   "Failed to login as sidekick", "VPS setup failed", "Docker setup failed",
   "Traefik setup failed", "Failed to write config"}

\* C2: the worker sends at most one terminal message (ErrorMsg or
\* AllDoneMsg), the terminal message is the last message of the stream, and
\* a run that failed in any step ends with an ErrorMsg naming that step and
\* has no AllDoneMsg.
C2_OneTerminalEvent ==
  /\ Cardinality(Terminals(events)) <= 1
  /\ \A i \in Terminals(events) : i = Len(events)
  /\ Terminals(events) # {} => pc \in {"done", "failed"}
  /\ pc = "failed" =>
       /\ events # <<>>
       /\ Last(events).kind = "ErrorMsg"
       /\ Last(events).about \in FailureTexts
       /\ \A i \in 1..Len(events) : events[i].kind # "AllDoneMsg"
  /\ pc = "done" => events # <<>> /\ Last(events) = AllDoneMsg

C2_Witness ==
  /\ pc = "failed"
  /\ Len(events) = 5
  /\ Last(events) = ErrorMsg("Docker setup failed")

\* the login attempts stage2Login made
LoginStateAttempts == SelectSeq(attempts, LAMBDA t : t.at = "stage2Login")

\* C3: in the Login state root is attempted first; sidekick is attempted
\* only after the root attempt failed; "Login failed" is reported only after
\* both attempts failed; otherwise the identity returned is the first one
\* that authenticated.
C3_IdentityPriority ==
  LET A == LoginStateAttempts
  IN  /\ Len(A) <= 2
      /\ Len(A) >= 1 => A[1].user = "root"
      /\ Len(A) = 2 => A[2].user = "sidekick" /\ ~A[1].ok
      /\ (events # <<>> /\ Last(events) = ErrorMsg("Login failed")) =>
           Len(A) = 2 /\ ~A[1].ok /\ ~A[2].ok /\ loggedInUser = ""
      /\ loggedInUser # "" =>
           /\ A # <<>>
           /\ Last(A).user = loggedInUser /\ Last(A).ok
           /\ \A i \in 1..(Len(A) - 1) : ~A[i].ok

C3_Witness ==
  /\ Len(LoginStateAttempts) = 2
  /\ loggedInUser = "sidekick"

\* new is old with the entry e upserted: an entry named like e is replaced
\* where it stands and nothing else moves or changes; without such an entry
\* e is added at the end
Upserted(old, e, new) ==
  IF \E i \in 1..Len(old) : old[i].Name = e.Name
    THEN /\ Len(new) = Len(old)
         /\ \E i \in 1..Len(old) :
              /\ old[i].Name = e.Name
              /\ new[i] = e
              /\ \A j \in 1..Len(old) : j # i => new[j] = old[j]
    ELSE /\ Len(new) = Len(old) + 1
         /\ new[Len(new)] = e
         /\ \A j \in 1..Len(old) : new[j] = old[j]

\* C4: AddOrReplaceServer (AddOrReplaceContext) replaces the entry of the
\* same name in place, leaving every other entry and the order as they were,
\* or appends the entry when no entry has its name; the length changes by 0
\* or 1, and the other collection and currentContext are unchanged.
C4_UpsertInPlace ==
  /\ lastCall.op = "AddOrReplaceServer" =>
       /\ Upserted(lastCall.before.Servers, lastCall.entry, config.Servers)
       /\ Len(config.Servers) - Len(lastCall.before.Servers) \in {0, 1}
       /\ config.Contexts = lastCall.before.Contexts
       /\ config.CurrentContext = lastCall.before.CurrentContext
  /\ lastCall.op = "AddOrReplaceContext" =>
       /\ Upserted(lastCall.before.Contexts, lastCall.entry, config.Contexts)
       /\ Len(config.Contexts) - Len(lastCall.before.Contexts) \in {0, 1}
       /\ config.Servers = lastCall.before.Servers
       /\ config.CurrentContext = lastCall.before.CurrentContext

\* a server replaced at the second position of a longer collection
C4_Witness ==
  /\ lastCall.op = "AddOrReplaceServer"
  /\ Len(lastCall.before.Servers) >= 2
  /\ lastCall.before.Servers[1].Name # lastCall.entry.Name
  /\ lastCall.before.Servers[2].Name = lastCall.entry.Name
  /\ lastCall.before.Servers[2] # lastCall.entry
  /\ config.Servers[2] = lastCall.entry

\* C5: an init run that ends in Done and started from an empty registry
\* leaves exactly one Server, named name, with Address = address and
\* CertEmail = email, exactly one Context named name pointing at server name,
\* and currentContext = name; that registry is the one handed to Save and the
\* one on disk.
C5_FreshRegistration ==
  (pc = "done" /\ loaded.Servers = <<>> /\ loaded.Contexts = <<>>) =>
    /\ Len(config.Servers) = 1
    /\ config.Servers[1].Name = name
    /\ config.Servers[1].Address = server
    /\ config.Servers[1].CertEmail = certEmail
    /\ config.Contexts = <<[Name |-> name, Server |-> name]>>
    /\ config.CurrentContext = name
    /\ saved = <<MarshalConfig(config)>>
    /\ file = FileOf(Last(saved))
    /\ UnmarshalConfig(file.doc) = config

C5_Witness ==
  /\ pc = "done"
  /\ loaded.Servers = <<>> /\ loaded.Contexts = <<>>
  /\ name = "box1" /\ server = "203.0.113.5" /\ certEmail = "a@b.com"

\* the server the run's name resolved to when the registry was loaded
FoundAtStart == FindServer(loaded, name)

\* C6: when the server found in the registry for the given name has a
\* non-empty PublicKey and a non-empty SecretKey, age-keygen is not run and
\* the keys held for that server, in the run's Host Identity, in the
\* in-memory registry and on disk, stay what they were, however the run ends.
C6_KeypairPreserved ==
  (/\ cmd = "init" /\ name # ""
   /\ ~FoundAtStart.err
   /\ FoundAtStart.val.PublicKey # "" /\ FoundAtStart.val.SecretKey # "") =>
    /\ keygenCalls = 0
    /\ sidekickServer.PublicKey = FoundAtStart.val.PublicKey
    /\ sidekickServer.SecretKey = FoundAtStart.val.SecretKey
    /\ \A c \in {config, UnmarshalConfig(file.doc)} :
         /\ ~FindServer(c, name).err
         /\ FindServer(c, name).val.PublicKey = FoundAtStart.val.PublicKey
         /\ FindServer(c, name).val.SecretKey = FoundAtStart.val.SecretKey

\* a second run on a registered server went through host setup and was saved
C6_Witness ==
  /\ pc = "done"
  /\ ~FoundAtStart.err
  /\ FoundAtStart.val.PublicKey # "" /\ FoundAtStart.val.SecretKey # ""
  /\ "setup" \in ranOk

\* the document config migrate prints for the legacy document d
MigratedDoc(d, out) ==
  /\ out.version = "1"
  /\ out.currentContext = "default"
  /\ Len(out.servers) = 1
  /\ Len(out.contexts) = 1
  /\ out.servers[1].name = "default"
  /\ out.contexts[1] = [name |-> "default", server |-> "default"]
  /\ \A k \in YamlServerKeys \ {"name"} :
       out.servers[1][k] = IF k \in DOMAIN d THEN d[k] ELSE ""

\* C7: config migrate on a legacy single-host document prints a registry
\* with exactly one server and one context, both named "default", the context
\* pointing at server "default", currentContext "default" and version "1",
\* the other server fields being those of the legacy document; the file is
\* left as it was and Save is not called.
C7_MigrateLegacy ==
  [][ (pc = "shell" /\ cmd' = "config migrate") =>
        /\ file' = file
        /\ saved' = <<>>
        /\ (file.kind = "file" /\ file.doc \in LegacyDocs /\ exitCode' = 0) =>
             /\ Len(stdout') = 1
             /\ MigratedDoc(file.doc, stdout'[1]) ]_vars

C7_Witness ==
  /\ cmd = "config migrate"
  /\ exitCode = 0
  /\ file.kind = "file" /\ file.doc \in LegacyDocs
  /\ Len(stdout) = 1
  /\ stdout[1].servers[1].address = "203.0.113.5"

\* the effect of each probed command batch on a host
EffectOf(hst) ==
  [usersetup |-> hst.user, docker |-> hst.docker, traefik |-> hst.traefik]

\* the message of the step that runs each batch
FailureTextOf ==
  [usersetup |-> "User setup failed", docker |-> "Docker setup failed",
   traefik |-> "Traefik setup failed"]

\* C8: a stage (UserBootstrap, ContainerRuntime, ReverseProxy) whose effect
\* an earlier run established on the host runs none of its mutating commands
\* in a later run against that host and does not fail, each stage by itself.
C8_SecondRunSkips ==
  (cmd = "init" /\ server \in HostAddrs) =>
    \A b \in {"usersetup", "docker", "traefik"} :
      EffectOf(host0[server])[b] =>
        /\ b \notin ran
        /\ ~(events # <<>> /\ Last(events) = ErrorMsg(FailureTextOf[b]))

\* the command batch behind each probe
BatchOf == [hostdetect |-> "setup", docker |-> "docker", traefik |-> "traefik"]

\* C9: when the probe of ContainerRuntime, ReverseProxy or HostDetect cannot
\* be executed, the stage fails: none of its commands are run, the worker
\* stops and the stream ends in an ErrorMsg instead of a NextStageMsg.
C9_ProbeFailureFailsStage ==
  probeErr \in {"hostdetect", "docker", "traefik"} =>
    /\ BatchOf[probeErr] \notin ran
    /\ pc = "failed"
    /\ events # <<>> /\ Last(events).kind = "ErrorMsg"

\* C10: no utils.Login is called before LocalPrereqs has completed
\* successfully, and a run whose LocalPrereqs failed has called none.
C10_NoLoginBeforeLocalPrereqs ==
  /\ attempts # <<>> => (events # <<>> /\ events[1] = NextStageMsg(1))
  /\ (events # <<>> /\ events[1] = ErrorMsg("Local requirements check failed")) =>
       attempts = <<>>

\* C11: an init whose server address is not a valid IP address, or whose
\* contact email is missing, makes no connection attempt, whether the value
\* came from the command line or from the prompt.
C11_BadInputNoNetwork ==
  (cmd = "init" /\ (~IsValidIPAddress(server) \/ certEmail = "")) =>
    attempts = <<>>

\* stage3UserSetup has just returned
AfterStage3 ==
  \/ pc = "relogin"
  \/ pc = "failed" /\ Last(events) = ErrorMsg("User setup failed")

\* C12: the user-creation stage is run exactly when Login succeeded as root
\* and the service identity does not exist yet (the existence check gave no
\* output or could not be run); otherwise UserBootstrap runs no mutating
\* command, leaves the host alone and returns success.
C12_UserSetupOnlyAsRoot ==
  AfterStage3 =>
    LET absent == probeErr = "usersetup" \/ IdOutput(host0[server]) = ""
    IN  /\ "usersetup" \in ran <=> (loggedInUser = "root" /\ absent)
        /\ "usersetup" \notin ran =>
             /\ pc = "relogin"
             /\ host = host0
             /\ ran = {}

\* root is logged in on a host that has the user, and the check cannot be run
C12_Witness ==
  /\ pc = "relogin"
  /\ loggedInUser = "root"
  /\ IdOutput(host0[server]) # ""
  /\ probeErr = "usersetup"
  /\ "usersetup" \in ranOk

\* C13: Done is emitted only after ReverseProxy succeeded, the server and the
\* context were upserted, currentContext was set and Save returned success;
\* when Save fails the run ends with Error and Done is never emitted.
C13_DoneOnlyAfterSave ==
  /\ pc = "done" =>
       /\ events = AdvancesUpTo(NumStages - 1) \o <<AllDoneMsg>>
       /\ host[server].traefik
       /\ config = Registered(loaded, sidekickServer)
       /\ saved = <<MarshalConfig(config)>>
       /\ file = FileOf(MarshalConfig(config))
  /\ (cmd = "init" /\ \E i \in 1..Len(events) : events[i] = AllDoneMsg) =>
       /\ pc = "done"
       /\ Last(events) = AllDoneMsg
  /\ (cmd = "init" /\ saved # <<>> /\ file # FileOf(Last(saved))) =>
       /\ pc = "failed"
       /\ Last(events) = ErrorMsg("Failed to write config")
       /\ \A i \in 1..Len(events) : events[i] # AllDoneMsg

\* a run that ended with Done
C13_Witness ==
  /\ pc = "done"
  /\ Last(events) = AllDoneMsg
  /\ file = FileOf(MarshalConfig(config))
  /\ config.CurrentContext = name

\* C14: `config use` ends with status 0 only when the registry, with the new
\* currentContext, was written to the file.
C14_UseExitsZeroOnlyWhenSaved ==
  (cmd = "config use" /\ pc = "exited" /\ exitCode = 0) =>
    file = FileOf(MarshalConfig(config))

\* no two entries of the collection share a Name
UniqueNameSeq(seq) ==
  \A i, j \in 1..Len(seq) : seq[i].Name = seq[j].Name => i = j

UniqueNames(c) == UniqueNameSeq(c.Servers) /\ UniqueNameSeq(c.Contexts)

\* C15: AddOrReplaceServer, AddOrReplaceContext, the registry update of a
\* successful init run and `config use` each take a registry whose Server
\* names and Context names are unique to a registry whose names are unique.
C15_NamesStayUnique ==
  [][UniqueNames(config) => UniqueNames(config')]_vars

\* two registered servers, one of them registered again by an init run
C15_Witness ==
  /\ lastCall.op = "Registered"
  /\ UniqueNames(lastCall.before)
  /\ Len(lastCall.before.Servers) >= 2
  /\ IndexOfName(lastCall.before.Servers, lastCall.entry.Name) = 2
  /\ lastCall.before.Servers[2] # lastCall.entry
  /\ UniqueNames(config)
  /\ Len(config.Servers) = Len(lastCall.before.Servers)

\* the registry's currentContext is empty or names a Context whose Server
\* is registered
Resolves(c) ==
  c.CurrentContext # "" => ~FindServerByContext(c, c.CurrentContext).err

\* C16: in a registry produced by successful init runs and `config use`,
\* a non-empty currentContext names a Context whose Server is registered.
C16_CurrentContextResolves ==
  (/\ cmd \in {"init", "config use"}
   /\ pc \in {"done", "exited"} /\ exitCode = 0
   /\ Resolves(loaded))
    => Resolves(config)

\* C17: once the worker of init has started, with every local process and
\* remote command returning and the display taking the messages, the worker
\* eventually sends AllDoneMsg or an ErrorMsg.
C17_WorkerTerminates ==
  (cmd = "init" /\ pc = "stage1") ~> (pc \in {"done", "failed"})

\* C18: an init run that fails in any stage or in the re-login leaves the
\* registry in memory as it was loaded and never calls Save; a run calls
\* Save at most once, and only after stage6Traefik has returned success.
C18_FailedRunLeavesRegistry ==
  cmd = "init" =>
    /\ Len(saved) <= 1
    /\ saved # <<>> =>
         /\ pc \in {"done", "failed"}
         /\ host[server].traefik
         /\ SubSeq(events, 1, NumStages - 1) = AdvancesUpTo(NumStages - 1)
    /\ (pc = "failed" /\ Last(events) # ErrorMsg("Failed to write config")) =>
         /\ config = loaded
         /\ saved = <<>>
    /\ pc \notin {"done", "failed"} =>
         /\ config = loaded
         /\ saved = <<>>

\* the last stage fails in a run that re-provisions a registered server at a
\* new address
C18_Witness ==
  /\ pc = "failed"
  /\ Last(events) = ErrorMsg("Traefik setup failed")
  /\ ~FoundAtStart.err
  /\ FoundAtStart.val # sidekickServer
  /\ config = loaded
  /\ saved = <<>>

\* an init run has ended in Done for a server that was registered, and
\* current, when the run started
RepeatedRun ==
  /\ cmd = "init" /\ pc = "done"
  /\ ~FoundAtStart.err
  /\ loaded.CurrentContext = name

\* the position of the server the run is about, in the registry as loaded
Slot == IndexOfName(loaded.Servers, name)

\* the run changed nothing but the entry at Slot, and of that entry at most
\* the fields in changed
OnlyEntryFields(changed) ==
  /\ Len(config.Servers) = Len(loaded.Servers)
  /\ config.Contexts = loaded.Contexts
  /\ config.CurrentContext = name
  /\ \A j \in 1..Len(loaded.Servers) :
       j # Slot => config.Servers[j] = loaded.Servers[j]
  /\ \A f \in ServerFields \ changed :
       config.Servers[Slot][f] = loaded.Servers[Slot][f]

\* C19 as stated: a second successful init with the same name, address and
\* email leaves the registry as the first left it, and with a changed address
\* or email only Address, CertEmail, Distro and PlatformId of that entry
\* differ: the keypair is kept in every case.
C19_RepeatSameRegistry ==
  RepeatedRun =>
    /\ OnlyEntryFields({"Address", "CertEmail", "Distro", "PlatformId"})
    /\ (FoundAtStart.val.Address = server /\ FoundAtStart.val.CertEmail = certEmail)
         => config = loaded

\* the registered entry holds both keys
HasKeypair(s) == s.PublicKey # "" /\ s.SecretKey # ""

\* C19: a second successful init with the same name, address and email
\* leaves the registry as the first left it provided the registered entry
\* holds a keypair; with a changed address or email only Address, CertEmail,
\* Distro and PlatformId of that entry differ, and also its keypair when the
\* registered entry held none.
C19_RepeatKeepsRegistry ==
  RepeatedRun =>
    /\ OnlyEntryFields({"Address", "CertEmail", "Distro", "PlatformId",
                        "PublicKey", "SecretKey"})
    /\ config.Servers[Slot].Address = server
    /\ config.Servers[Slot].CertEmail = certEmail
    /\ HasKeypair(FoundAtStart.val) =>
         /\ OnlyEntryFields({"Address", "CertEmail", "Distro", "PlatformId"})
         /\ (FoundAtStart.val.Address = server
               /\ FoundAtStart.val.CertEmail = certEmail) => config = loaded

\* the same name, address and email a second time, the keypair registered
C19_Witness ==
  /\ RepeatedRun
  /\ HasKeypair(FoundAtStart.val)
  /\ FoundAtStart.val.Address = server
  /\ FoundAtStart.val.CertEmail = certEmail
  /\ config = loaded
  /\ file = FileOf(MarshalConfig(loaded))

\* init was given the name of a registered server that has a PublicKey and
\* another address, without the skip flag
OverwriteAtStake ==
  /\ ~FoundAtStart.err
  /\ FoundAtStart.val.PublicKey # ""
  /\ FoundAtStart.val.Address # server
  /\ ~skipPromptsFlag

\* C20: init asks for the overwrite confirmation exactly when the named
\* server is registered with a non-empty PublicKey and another address and
\* the skip flag is not set; an answer other than y/Y ends the process with
\* no login attempt, no worker, no message and the registry in memory and
\* on disk as it was; without the question, or with y/Y, the run goes on.
C20_DeclinedOverwrite ==
  (cmd = "init" /\ name # "") =>
    /\ confirm # "" <=> OverwriteAtStake
    /\ (OverwriteAtStake /\ confirm \notin {"y", "Y"}) =>
         /\ pc = "exited" /\ exitCode = 0
         /\ attempts = <<>>
         /\ events = <<>>
         /\ ran = {}
         /\ config = loaded
         /\ saved = <<>>
         /\ file = FileOf(MarshalConfig(loaded))
         /\ host = host0
    /\ (~OverwriteAtStake \/ confirm \in {"y", "Y"}) => pc # "exited"

\* the overwrite was declined
C20_Witness ==
  /\ cmd = "init" /\ pc = "exited"
  /\ OverwriteAtStake
  /\ confirm = "n"
  /\ attempts = <<>>
  /\ file = FileOf(MarshalConfig(loaded))

\* the version field of what was read from the registry path
VersionOnDisk ==
  CASE file.kind = "file" ->
         IF "version" \in DOMAIN file.doc THEN file.doc.version ELSE ""
    [] OTHER -> ""

\* the process was ended while the registry was loaded
FatalAtLoad == pc = "exited" /\ exitCode = 1

\* C21: a missing registry file ends every command but init, help and
\* `config migrate`, which go on with the empty version "1" registry; a file
\* that was read and whose version is not "1" ends every command but help
\* and `config migrate`; so every other command that starts has a version
\* "1" registry.
C21_LoadOrDie ==
  cmd # "" =>
    /\ file.kind = "none" =>
         /\ FatalAtLoad <=> cmd \notin {"init", "help", "config migrate"}
         /\ ~FatalAtLoad =>
              /\ pc = "run"
              /\ config = [Version |-> "1", CurrentContext |-> "",
                           Contexts |-> <<>>, Servers |-> <<>>]
    /\ (file.kind # "none" /\ VersionOnDisk # "1") =>
         (FatalAtLoad <=> cmd \notin {"help", "config migrate"})
    /\ (file.kind # "none" /\ VersionOnDisk = "1") =>
         /\ pc = "run"
         /\ config = UnmarshalConfig(file.doc)
    /\ (pc = "run" /\ cmd \notin {"help", "config migrate"}) =>
         config.Version = "1"

\* init is ended on a registry of another version that holds a server
C21_Witness ==
  /\ cmd = "init"
  /\ FatalAtLoad
  /\ file.kind = "file"
  /\ VersionOnDisk = "2"
  /\ Len(file.doc.servers) >= 1

====
